---- MODULE Spec2Model ----
(***************************************************************************)
(* Dictation helper: the Setup form and the extraction call                *)
(* (components/Setup.tsx, services/geminiService analyzeMaterial), the     *)
(* App view routing (App.tsx) and the Practice session                     *)
(* (components/Practice, held in Worksheet.tsx from line 230): item flow,  *)
(* speech output, chat (chatWithAssistant, generateSpeech) and voice input.*)
(*                                                                         *)
(* JavaScript values are tagged records, so that undefined, null, strings  *)
(* and booleans stay distinct and `||` and template literals are computed  *)
(* as JavaScript computes them.  Source strings that are not ASCII are     *)
(* written as ASCII stand-ins; the comment beside each gives the original.  *)
(***************************************************************************)
EXTENDS Integers, Sequences, FiniteSets, TLC

VARIABLES
  appState,        \* App.tsx useState<AppState>: view, mode, audioLanguage, dictationList, currentIndex
  text,            \* Setup: textarea content, a sequence of characters
  mode,            \* Setup: selected DictationMode
  language,        \* Setup: selected audio language
  loading,         \* Setup: loading flag
  files,           \* Setup: attached files
  calls,           \* analyzeMaterial calls in flight: the closure of handleProcess, the service's
                   \* answer once it arrived and analyzeMaterial's promise
  lastAlert,       \* the window.alert raised by the last step ("none" when it raised none)
  currentIndex,    \* Practice: index of the current item (zero-based)
  stage,           \* Practice: 'reading' | 'revealed'
  robotEmotion,    \* Practice: RobotEmotion
  messages,        \* Practice: chat log
  effectPending,   \* Practice: the useEffect([currentIndex]) of the last commit has not run yet
  chatInput,       \* Practice: content of the chat input, a sequence of characters
  isListening,     \* Practice: isListening
  inputLang,       \* Practice: language of the voice input
  chats,           \* handleChatSubmit calls suspended at one of their awaits
  recognitions,    \* SpeechRecognition objects started by toggleListening that have not
                   \* ended; `current` marks the one recognitionRef.current holds
  speechAvailable, \* environment: 'speechSynthesis' in window
  recognitionAvailable, \* environment: window.SpeechRecognition || window.webkitSpeechRecognition
  synth,           \* window.speechSynthesis: utterances speaking (head) and queued
  cancelled,       \* utterances of the mounted Practice that cancel() removed and whose
                   \* end/error event is not delivered yet
  timers           \* pending setTimeout callbacks of handlePlayAudio, in firing order

setupVars    == <<text, mode, language, loading, files>>
practiceVars == <<currentIndex, stage, robotEmotion, messages, effectPending>>
speechVars   == <<synth, cancelled, timers>>
ioVars       == <<chatInput, isListening, inputLang, chats, recognitions>>
vars == <<appState, text, mode, language, loading, files, calls, lastAlert,
          currentIndex, stage, robotEmotion, messages, effectPending,
          chatInput, isListening, inputLang, chats, recognitions,
          speechAvailable, recognitionAvailable, synth, cancelled, timers>>

----------------------------------------------------------------------------
(* Bounds of the model *)

MaxItems  == 2    \* longest raw array the service answers with
MaxText   == 1    \* longest textarea content
MaxFiles  == 1    \* most attached files
MaxCalls  == 2    \* most analyzeMaterial calls in flight
MaxFinish == 2    \* most congratulatory messages appended in one session
MaxTimers == 1    \* most pending playback timers
MaxCancelled == 1 \* most undelivered events of cancelled utterances (more are merged)
MaxChats  == 1    \* most chat submissions of one session
MaxRecognitions == 1 \* most SpeechRecognition objects that have not ended
MaxResults == 2   \* most results carried by one recognition result event
SessionResults == 1  \* SpecSession: most results of one result event
TogglePending == 2   \* SpecToggle: most SpeechRecognition objects that have not ended
WindowFinish == 5    \* SpecWindow: most congratulatory messages, so that the log
                     \* outgrows the history window before a submission
PendingChats == 2    \* SpecPending: most chat submissions of one session, so that a
                     \* submission finds the one before it unanswered
StalePending == 2    \* SpecStale: most pending playback timers, so that a play of
                     \* the next item finds the timer of the item before it

----------------------------------------------------------------------------
(* JavaScript values *)

Undefined == [t |-> "undefined"]
Null      == [t |-> "null"]
Str(s)    == [t |-> "string", v |-> s]
Bool(b)   == [t |-> "boolean", v |-> b]
Arr(s)    == [t |-> "array", v |-> s]
Obj(f)    == [t |-> "object", v |-> f]

\* ToBoolean, as `||` and `if (x)` apply it
Truthy(x) ==
  CASE x.t = "undefined" -> FALSE
    [] x.t = "null"      -> FALSE
    [] x.t = "string"    -> x.v # ""
    [] x.t = "boolean"   -> x.v
    [] OTHER             -> TRUE

\* a || b
Or(a, b) == IF Truthy(a) THEN a ELSE b

\* ToString, as a template literal `${x}` applies it
JSString(x) ==
  CASE x.t = "undefined" -> "undefined"
    [] x.t = "null"      -> "null"
    [] x.t = "string"    -> x.v
    [] x.t = "boolean"   -> IF x.v THEN "true" ELSE "false"
    [] x.t = "array"     -> "[array]"
    [] OTHER             -> "[object Object]"

\* item.key: undefined for a key the object does not carry and for any key of
\* a primitive; the caller decides what reading a property of null does
Get(x, key) ==
  IF x.t = "object" /\ key \in DOMAIN x.v THEN x.v[key] ELSE Undefined

\* outcome of a block of code: a value, or an exception thrown
Ok(x)     == [ok |-> TRUE, val |-> x]
Thrown(e) == [ok |-> FALSE, err |-> e]

\* settled promise
Fulfilled(x) == [state |-> "fulfilled", value |-> x]
Rejected(e)  == [state |-> "rejected", reason |-> e]

----------------------------------------------------------------------------
(* String.prototype.trim on a sequence of characters *)

Whitespace == {" "}

RECURSIVE TrimStart(_)
TrimStart(s) ==
  IF s = <<>> \/ Head(s) \notin Whitespace THEN s ELSE TrimStart(Tail(s))

RECURSIVE TrimEnd(_)
TrimEnd(s) ==
  IF s = <<>> \/ s[Len(s)] \notin Whitespace THEN s
  ELSE TrimEnd(SubSeq(s, 1, Len(s) - 1))

Trim(s) == TrimEnd(TrimStart(s))

----------------------------------------------------------------------------
(* services/geminiService: analyzeMaterial *)

Modes     == {"paragraph", "vocab", "idiom"}
Languages == {"mandarin", "cantonese"}

\* response.text: absent/empty, or a text that is or is not well-formed JSON;
\* a well-formed text denotes one JSON value
NoText       == [wf |-> FALSE, empty |-> TRUE]
Garbled      == [wf |-> FALSE, empty |-> FALSE]
JsonText(x)  == [wf |-> TRUE, empty |-> FALSE, json |-> x]

\* JSON.parse: the value the text denotes, or a SyntaxError
JSONParse(t) == IF t.wf THEN Ok(t.json) ELSE Thrown("SyntaxError")

\* the item mapping without the `|| ""` of meaning
mapItemNoMeaningDefault(item, index) ==
  [ id             |-> Str(ToString(index)),
    content        |-> Get(item, "content"),
    subContent     |-> Or(Or(Get(item, "subContent"), Get(item, "pinyin")), Str("")),
    meaning        |-> Get(item, "meaning"),
    example        |-> Or(Get(item, "example"), Str("")),
    clozeContent   |-> Or(Get(item, "clozeContent"), Str("")),
    isNewParagraph |-> Or(Get(item, "newParagraph"), Bool(FALSE)) ]

\* the item mapping without the `|| ""` of example
mapItemNoExampleDefault(item, index) ==
  [ id             |-> Str(ToString(index)),
    content        |-> Get(item, "content"),
    subContent     |-> Or(Or(Get(item, "subContent"), Get(item, "pinyin")), Str("")),
    meaning        |-> Or(Get(item, "meaning"), Str("")),
    example        |-> Get(item, "example"),
    clozeContent   |-> Or(Get(item, "clozeContent"), Str("")),
    isNewParagraph |-> Or(Get(item, "newParagraph"), Bool(FALSE)) ]

\* the item mapping keeping an id the raw item carries
mapItemKeepId(item, index) ==
  [ id             |-> Or(Get(item, "id"), Str(ToString(index))),
    content        |-> Get(item, "content"),
    subContent     |-> Or(Or(Get(item, "subContent"), Get(item, "pinyin")), Str("")),
    meaning        |-> Or(Get(item, "meaning"), Str("")),
    example        |-> Or(Get(item, "example"), Str("")),
    clozeContent   |-> Or(Get(item, "clozeContent"), Str("")),
    isNewParagraph |-> Or(Get(item, "newParagraph"), Bool(FALSE)) ]

\* the object literal of the item mapping
mapItem(item, index) ==
  [ id             |-> Str(ToString(index)),
    content        |-> Get(item, "content"),
    subContent     |-> Or(Or(Get(item, "subContent"), Get(item, "pinyin")), Str("")),
    meaning        |-> Or(Get(item, "meaning"), Str("")),
    example        |-> Or(Get(item, "example"), Str("")),
    clozeContent   |-> Or(Get(item, "clozeContent"), Str("")),
    isNewParagraph |-> Or(Get(item, "newParagraph"), Bool(FALSE)) ]

\* rawItems.map(...): a TypeError when rawItems has no map method (anything
\* but an array) or an element is null (a property of null is read)
mapRawItems(rawItems) ==
  IF rawItems.t # "array" THEN Thrown("TypeError")
  ELSE IF \E i \in DOMAIN rawItems.v : rawItems.v[i].t \in {"null", "undefined"}
       THEN Thrown("TypeError")
       ELSE Ok([i \in DOMAIN rawItems.v |-> mapItem(rawItems.v[i], i - 1)])

\* the body of the try block, from the service's answer on
analyzeTry(response) ==
  IF response.kind = "throw" THEN Thrown("transport")
  ELSE LET jsonText == IF response.text.empty THEN JsonText(Arr(<<>>)) ELSE response.text
           parsed   == JSONParse(jsonText)
       IN  IF parsed.ok THEN mapRawItems(parsed.val) ELSE parsed

\* a catch clause that rethrows
analyzeCatchRethrow(outcome) ==
  IF outcome.ok THEN Fulfilled(outcome.val) ELSE Rejected(outcome.err)

\* the catch clause: every exception of the try block becomes []
analyzeCatch(outcome) ==
  IF outcome.ok THEN Fulfilled(outcome.val) ELSE Fulfilled(<<>>)

analyzeMaterial(response) == analyzeCatch(analyzeTry(response))

----------------------------------------------------------------------------
(* What the service may answer *)

Transport == [kind |-> "throw"]
Answer(t) == [kind |-> "ok", text |-> t]
Pending   == [kind |-> "pending"]   \* the service has not answered yet
Unsettled == [state |-> "pending"]  \* analyzeMaterial's promise before it settles

RECURSIVE SeqsUpTo(_, _)
SeqsUpTo(S, n) ==
  IF n = 0 THEN {<<>>}
  ELSE LET shorter == SeqsUpTo(S, n - 1)
       IN  shorter \cup {Append(s, x) : s \in {q \in shorter : Len(q) = n - 1}, x \in S}

\* raw items of the session specifications
ItemA == Obj([content |-> Str("c1"), meaning |-> Str("m1"), id |-> Str("9")])
ItemB == Obj([content |-> Str("c2"), pinyin |-> Str("p2")])

\* the raw array ItemA, ItemB, ItemA, ... of length n
RawArray(n) == [i \in 1..n |-> IF i % 2 = 1 THEN ItemA ELSE ItemB]

\* failures, and the raw arrays of every length up to MaxItems
SessionResponses ==
  {Transport, Answer(NoText), Answer(Garbled)}
    \cup {Answer(JsonText(Arr(RawArray(n)))) : n \in 0..MaxItems}

\* raw items of the extraction specification: every field missing
\* (undefined), null, empty or filled in
WideItems ==
  { Obj(f) : f \in [ content      : {Undefined, Str(""), Str("c")},
                     subContent   : {Undefined, Null, Str("s")},
                     pinyin       : {Undefined, Str("p")},
                     meaning      : {Undefined, Null, Str(""), Str("m")},
                     example      : {Undefined, Null, Str("e")},
                     clozeContent : {Undefined, Str("z")},
                     newParagraph : {Undefined, Bool(TRUE), Bool(FALSE)},
                     id           : {Undefined, Str("9")} ] }

\* the session's answers, payloads that are no array or hold a null element,
\* and arrays of one wide item or of one primitive
WideResponses ==
  SessionResponses
    \cup { Answer(JsonText(Null)), Answer(JsonText(Str("x"))), Answer(JsonText(Bool(TRUE))),
           Answer(JsonText(ItemA)),
           Answer(JsonText(Arr(<<Null>>))), Answer(JsonText(Arr(<<ItemA, Null>>))),
           Answer(JsonText(Arr(<<Str("x")>>))) }
    \cup {Answer(JsonText(Arr(<<x>>))) : x \in WideItems}

----------------------------------------------------------------------------
(* Initial state *)

Greeting  == <<"greeting">>          \* the model message of useState<ChatMessage[]> (Practice)
Congrats  == <<"congratulations">>   \* the model message of handleNext's terminal branch

AppInit ==
  [view |-> "setup", mode |-> "vocab", audioLanguage |-> "cantonese",
   dictationList |-> <<>>, currentIndex |-> 0]

\* Setup's state at mount
SetupInit ==
  /\ text = <<>>
  /\ mode = "vocab"
  /\ language = "cantonese"
  /\ loading = FALSE
  /\ files = <<>>

\* Practice's state at mount
PracticeInit ==
  /\ currentIndex = 0
  /\ stage = "reading"
  /\ robotEmotion = "idle"
  /\ messages = <<[role |-> "model", text |-> Greeting]>>
  /\ effectPending = FALSE
  /\ chatInput = <<>>
  /\ isListening = FALSE
  /\ inputLang = "zh-HK"

Init ==
  /\ appState = AppInit
  /\ SetupInit
  /\ calls = <<>>
  /\ lastAlert = "none"
  /\ PracticeInit
  /\ chats = <<>>
  /\ recognitions = <<>>
  /\ speechAvailable \in BOOLEAN
  /\ recognitionAvailable \in BOOLEAN
  /\ synth = <<>>
  /\ cancelled = 0
  /\ timers = <<>>

----------------------------------------------------------------------------
(* components/Setup.tsx *)

Texts     == SeqsUpTo({" ", "a"}, MaxText)
FileNames == {"f1"}
Sample    == <<"a">>     \* the sample sentence of loadSample (not blank)

View == appState.view

\* s without its i-th element: prev.filter((_, j) => j !== index)
RemoveAt(s, i) == SubSeq(s, 1, i - 1) \o SubSeq(s, i + 1, Len(s))

\* onChange of the textarea
SetText ==
  /\ View = "setup"
  /\ \E t \in Texts : text' = t
  /\ text' # text
  /\ lastAlert' = "none"
  /\ UNCHANGED <<appState, mode, language, loading, files, calls, speechAvailable, recognitionAvailable>>
  /\ UNCHANGED practiceVars /\ UNCHANGED speechVars /\ UNCHANGED ioVars

\* the three mode buttons
SetMode ==
  /\ View = "setup"
  /\ \E m \in Modes : mode' = m
  /\ mode' # mode
  /\ lastAlert' = "none"
  /\ UNCHANGED <<appState, text, language, loading, files, calls, speechAvailable, recognitionAvailable>>
  /\ UNCHANGED practiceVars /\ UNCHANGED speechVars /\ UNCHANGED ioVars

\* the two language buttons
SetLanguage ==
  /\ View = "setup"
  /\ \E l \in Languages : language' = l
  /\ language' # language
  /\ lastAlert' = "none"
  /\ UNCHANGED <<appState, text, mode, loading, files, calls, speechAvailable, recognitionAvailable>>
  /\ UNCHANGED practiceVars /\ UNCHANGED speechVars /\ UNCHANGED ioVars

\* handleFileChange: reader.onload appends the file read
AddFile ==
  /\ View = "setup"
  /\ Len(files) < MaxFiles
  /\ \E f \in FileNames : files' = Append(files, f)
  /\ lastAlert' = "none"
  /\ UNCHANGED <<appState, text, mode, language, loading, calls, speechAvailable, recognitionAvailable>>
  /\ UNCHANGED practiceVars /\ UNCHANGED speechVars /\ UNCHANGED ioVars

\* removeFile(index)
RemoveFile ==
  /\ View = "setup"
  /\ \E i \in DOMAIN files : files' = RemoveAt(files, i)
  /\ lastAlert' = "none"
  /\ UNCHANGED <<appState, text, mode, language, loading, calls, speechAvailable, recognitionAvailable>>
  /\ UNCHANGED practiceVars /\ UNCHANGED speechVars /\ UNCHANGED ioVars

\* loadSample; its button is rendered only while !text && files.length === 0
LoadSample ==
  /\ View = "setup"
  /\ text = <<>> /\ files = <<>>
  /\ mode' = "paragraph"
  /\ text' = Sample
  /\ lastAlert' = "none"
  /\ UNCHANGED <<appState, language, loading, files, calls, speechAvailable, recognitionAvailable>>
  /\ UNCHANGED practiceVars /\ UNCHANGED speechVars /\ UNCHANGED ioVars

\* !text.trim() && files.length === 0
NoMaterial == Trim(text) = <<>> /\ Len(files) = 0

\* `disabled` of the two action buttons
ProcessDisabledNoLoading == NoMaterial
ProcessDisabled == loading \/ NoMaterial

\* handleProcess(targetView) up to its await: the closure keeps mode, language
\* and targetView of the render the click was made in
HandleProcess ==
  /\ View = "setup"
  /\ ~ProcessDisabled
  /\ Len(calls) < MaxCalls
  /\ \E targetView \in {"practice", "worksheet"} :
       IF NoMaterial
       THEN UNCHANGED <<loading, calls>>
       ELSE /\ loading' = TRUE
            /\ calls' = Append(calls, [mode |-> mode, language |-> language,
                                       targetView |-> targetView,
                                       response |-> Pending, promise |-> Unsettled])
  /\ lastAlert' = "none"
  /\ UNCHANGED <<appState, text, mode, language, files, speechAvailable, recognitionAvailable>>
  /\ UNCHANGED practiceVars /\ UNCHANGED speechVars /\ UNCHANGED ioVars

\* the service answers call i (or the transport fails) and analyzeMaterial runs
\* on from its await to its return, settling its promise
ServiceResponds(Responses) ==
  /\ \E i \in DOMAIN calls :
       /\ calls[i].response = Pending
       /\ \E r \in Responses :
            calls' = [calls EXCEPT ![i].response = r, ![i].promise = analyzeMaterial(r)]
  /\ lastAlert' = "none"
  /\ UNCHANGED <<appState, speechAvailable, recognitionAvailable>>
  /\ UNCHANGED setupVars /\ UNCHANGED practiceVars /\ UNCHANGED speechVars /\ UNCHANGED ioVars

----------------------------------------------------------------------------
(* App.tsx *)

\* handleStart: the alert raised and setAppState's update of prev
handleStartNoCheck(prev, items, m, lang, targetView) ==
  [ appState |-> [prev EXCEPT !.view = targetView, !.dictationList = items, !.mode = m,
                              !.audioLanguage = lang, !.currentIndex = 0],
    alert    |-> "none" ]

handleStart(prev, items, m, lang, targetView) ==
  IF Len(items) = 0
  THEN [appState |-> prev, alert |-> "content-missing"]
  ELSE [ appState |-> [prev EXCEPT !.view = targetView, !.dictationList = items,
                                   !.mode = m, !.audioLanguage = lang,
                                   !.currentIndex = 0],
         alert    |-> "none" ]

\* Practice is mounted only in the practice view.  A mount starts from
\* useState's initial values and schedules the useEffect([currentIndex]);
\* an unmount drops the state, and the callbacks the old instance left behind
\* (utterance events, timers) no longer reach any component state.
Orphan(s) == [i \in DOMAIN s |-> [s[i] EXCEPT !.live = FALSE]]

PracticeRemount(nextView) ==
  /\ currentIndex' = 0
  /\ stage' = "reading"
  /\ robotEmotion' = "idle"
  /\ messages' = <<[role |-> "model", text |-> Greeting]>>
  /\ effectPending' = (nextView = "practice")
  /\ synth' = Orphan(synth)
  /\ cancelled' = 0
  /\ timers' = Orphan(timers)
  /\ chatInput' = <<>>
  /\ isListening' = FALSE
  /\ inputLang' = "zh-HK"
  /\ chats' = Orphan(chats)
  /\ recognitions' = Orphan(recognitions)

\* what a change of appState does to the mounted components: Setup is mounted
\* only in the setup view and Practice only in the practice view; an unmounted
\* component's state is gone and a later mount starts from useState's values
Route ==
  /\ IF appState'.view = "setup" /\ View = "setup"
     THEN UNCHANGED <<text, mode, language, files>>
     ELSE /\ text' = <<>> /\ mode' = "vocab" /\ language' = "cantonese" /\ files' = <<>>
  /\ IF appState'.view = "practice" /\ View = "practice"
     THEN UNCHANGED practiceVars /\ UNCHANGED speechVars /\ UNCHANGED ioVars
     ELSE PracticeRemount(appState'.view)

\* the mode handed to onStart: the mode of the render the click was made in
onStartModeOfSelector(c) == mode
onStartMode(c) == c.mode

\* handleProcess from its await on, for a call whose promise has settled:
\* setLoading(false); onStart(items, mode, language, targetView).  A rejected
\* promise would make the await throw, and neither statement would run.
ProcessResumes ==
  /\ ~effectPending
  /\ \E i \in DOMAIN calls :
       LET c == calls[i] IN
       /\ c.promise # Unsettled
       /\ calls' = RemoveAt(calls, i)
       /\ IF c.promise.state = "rejected"
          THEN /\ lastAlert' = "none"
               /\ UNCHANGED <<appState, speechAvailable, recognitionAvailable>>
               /\ UNCHANGED setupVars /\ UNCHANGED practiceVars /\ UNCHANGED speechVars /\ UNCHANGED ioVars
          ELSE LET r == handleStart(appState, c.promise.value, onStartMode(c), c.language, c.targetView) IN
               /\ appState' = r.appState
               /\ lastAlert' = r.alert
               /\ loading' = FALSE
               /\ Route
               /\ UNCHANGED <<speechAvailable, recognitionAvailable>>

\* handleBack (the exit buttons of Practice and Worksheet)
HandleBack ==
  /\ View \in {"practice", "worksheet"}
  /\ ~effectPending
  /\ appState' = [appState EXCEPT !.view = "setup", !.dictationList = <<>>]
  /\ lastAlert' = "none"
  /\ loading' = FALSE
  /\ Route
  /\ UNCHANGED <<calls, speechAvailable, recognitionAvailable>>

----------------------------------------------------------------------------
(* Practice (Worksheet.tsx from line 230): speech output *)

MeaningPrefix == "yisi shi: "    \* the fixed prefix of the second idiom utterance

Items == appState.dictationList

\* items[currentIndex]; undefined when the index is outside the list
CurrentItem ==
  IF currentIndex + 1 \in DOMAIN Items THEN Obj(Items[currentIndex + 1]) ELSE Undefined

\* new SpeechSynthesisUtterance(text): an omitted (undefined) text is ""
UtteranceText(x) == IF x.t = "undefined" THEN "" ELSE JSString(x)

Min(a, b) == IF a < b THEN a ELSE b

LiveCount(s) == Cardinality({i \in DOMAIN s : s[i].live})

\* speakText(text, isSlow) of a render with audioLanguage lang; live tells
\* whether that render's component is still mounted (its setRobotEmotion and
\* its utterance handlers reach the state only then).  The voice and
\* utterance.lang chosen from getVoices() are not part of the state.
\* ok is FALSE when the call throws: window.speechSynthesis is undefined and
\* the cantonese branch calls cancel() on it.
\* speakText without the cancel() before speak()
speakTextNoCancel(txt, isSlow, lang, live) ==
  IF lang = "cantonese" \/ speechAvailable
  THEN IF ~speechAvailable
       THEN [ ok |-> FALSE, synth |-> synth, cancelled |-> cancelled, alert |-> "none",
              robotEmotion |-> IF live THEN "speaking" ELSE robotEmotion ]
       ELSE [ ok |-> TRUE,
              synth |-> Append(synth, [text |-> txt, slow |-> isSlow, live |-> live]),
              cancelled |-> cancelled,
              alert |-> "none",
              robotEmotion |-> IF live THEN "speaking" ELSE robotEmotion ]
  ELSE [ ok |-> TRUE, synth |-> synth, cancelled |-> cancelled, alert |-> "tts-unsupported",
         robotEmotion |-> IF live THEN "idle" ELSE robotEmotion ]

speakText(txt, isSlow, lang, live) ==
  IF lang = "cantonese" \/ speechAvailable
  THEN IF ~speechAvailable
       THEN [ ok |-> FALSE, synth |-> synth, cancelled |-> cancelled, alert |-> "none",
              robotEmotion |-> IF live THEN "speaking" ELSE robotEmotion ]
       ELSE [ ok |-> TRUE,
              synth |-> <<[text |-> txt, slow |-> isSlow, live |-> live]>>,
              cancelled |-> Min(cancelled + LiveCount(synth), MaxCancelled),
              alert |-> "none",
              robotEmotion |-> IF live THEN "speaking" ELSE robotEmotion ]
  ELSE [ ok |-> TRUE, synth |-> synth, cancelled |-> cancelled, alert |-> "tts-unsupported",
         robotEmotion |-> IF live THEN "idle" ELSE robotEmotion ]

\* the callback handlePlayAudio hands to setTimeout in idiom mode; it keeps
\* the currentItem and audioLanguage of the render the click was made in
idiomTimerNoPrefix(item, lang) ==
  [text |-> JSString(Get(item, "meaning")), lang |-> lang, live |-> TRUE]

idiomTimer(item, lang) ==
  [text |-> MeaningPrefix \o JSString(Get(item, "meaning")), lang |-> lang, live |-> TRUE]

\* handlePlayAudio (the play button of the reading stage, the replay button of
\* the revealed stage).  Reading currentItem.content of an undefined
\* currentItem throws before anything is done.
HandlePlayAudioWithin(pending) ==
  /\ View = "practice"
  /\ ~effectPending
  /\ appState.mode = "idiom" => Len(timers) < pending
  /\ IF CurrentItem = Undefined
     THEN /\ lastAlert' = "none"
          /\ UNCHANGED <<robotEmotion, synth, cancelled, timers>>
     ELSE LET lang == appState.audioLanguage
              r == speakText(UtteranceText(Get(CurrentItem, "content")),
                             appState.mode = "paragraph", lang, TRUE)
          IN  /\ robotEmotion' = r.robotEmotion
              /\ synth' = r.synth
              /\ cancelled' = r.cancelled
              /\ lastAlert' = r.alert
              /\ timers' = IF appState.mode = "idiom" /\ r.ok
                           THEN Append(timers, idiomTimer(CurrentItem, lang))
                           ELSE timers
  /\ UNCHANGED <<appState, calls, speechAvailable, recognitionAvailable, currentIndex, stage, messages, effectPending>>
  /\ UNCHANGED setupVars /\ UNCHANGED ioVars

HandlePlayAudio == HandlePlayAudioWithin(MaxTimers)

\* the text the timer callback speaks: the template string is built when the
\* callback runs, from the currentItem of the closure the callback was made in
timerTextOfCurrentItem(t) == MeaningPrefix \o JSString(Get(CurrentItem, "meaning"))
timerText(t) == t.text

\* the 2000 ms timer of the oldest pending idiom playback fires:
\* speakText(`${prefix}${currentItem.meaning}`, false)
TimerFires ==
  /\ timers # <<>>
  /\ ~effectPending
  /\ LET t == Head(timers)
         r == speakText(timerText(t), FALSE, t.lang, t.live)
     IN  /\ robotEmotion' = r.robotEmotion
         /\ synth' = r.synth
         /\ cancelled' = r.cancelled
         /\ lastAlert' = r.alert
  /\ timers' = Tail(timers)
  /\ UNCHANGED <<appState, calls, speechAvailable, recognitionAvailable, currentIndex, stage, messages, effectPending>>
  /\ UNCHANGED setupVars /\ UNCHANGED ioVars

\* the speaking utterance ends or fails: utterance.onend / utterance.onerror,
\* both setRobotEmotion('idle')
UtteranceSettles ==
  /\ synth # <<>>
  /\ ~effectPending
  /\ synth' = Tail(synth)
  /\ robotEmotion' = IF Head(synth).live THEN "idle" ELSE robotEmotion
  /\ lastAlert' = "none"
  /\ UNCHANGED <<appState, calls, speechAvailable, recognitionAvailable, currentIndex, stage, messages, effectPending,
                 cancelled, timers>>
  /\ UNCHANGED setupVars /\ UNCHANGED ioVars

\* the end/error event of an utterance that cancel() removed is delivered
CancelledSettles ==
  /\ cancelled > 0
  /\ ~effectPending
  /\ cancelled' = cancelled - 1
  /\ robotEmotion' = "idle"
  /\ lastAlert' = "none"
  /\ UNCHANGED <<appState, calls, speechAvailable, recognitionAvailable, currentIndex, stage, messages, effectPending,
                 synth, timers>>
  /\ UNCHANGED setupVars /\ UNCHANGED ioVars

----------------------------------------------------------------------------
(* Practice: flow *)

CongratsCount == Cardinality({i \in DOMAIN messages : messages[i].text = Congrats})

\* an updater that drops the oldest message as it adds the new one
appendMessageDropsOldest(prev, m) == Append(Tail(prev), m)

\* the updater handed to setMessages: prev => [...prev, m]
appendMessage(prev, m) == Append(prev, m)

\* currentIndex < items.length - 1
hasNextOffByOne(index, length) == index < length
hasNext(index, length) == index < length - 1

\* setStage('revealed') of the reveal branch
revealStageKept(s) == s
revealStage(s) == "revealed"

\* setStage('reading') of the advance branch
advanceStageKept(s) == s
advanceStage(s) == "reading"

\* handleNext: reveal in stage 'reading'; in stage 'revealed' advance, or at
\* the last index append the congratulatory message
HandleNextWithin(finish) ==
  /\ View = "practice"
  /\ ~effectPending
  /\ IF stage = "reading"
     THEN /\ stage' = revealStage(stage)
          /\ UNCHANGED <<currentIndex, robotEmotion, messages, effectPending>>
     ELSE IF hasNext(currentIndex, Len(Items))
          THEN /\ currentIndex' = currentIndex + 1
               /\ stage' = advanceStage(stage)
               /\ robotEmotion' = "idle"
               /\ effectPending' = TRUE
               /\ UNCHANGED messages
          ELSE /\ CongratsCount < finish
               /\ messages' = appendMessage(messages, [role |-> "model", text |-> Congrats])
               /\ robotEmotion' = "happy"
               /\ UNCHANGED <<currentIndex, stage, effectPending>>
  /\ lastAlert' = "none"
  /\ UNCHANGED <<appState, calls, speechAvailable, recognitionAvailable>>
  /\ UNCHANGED setupVars /\ UNCHANGED speechVars /\ UNCHANGED ioVars

HandleNext == HandleNextWithin(MaxFinish)

\* useEffect(() => setStage('reading'), [currentIndex]): runs after the commit
\* of a mount or of an index change, before any other handler
IndexEffect ==
  /\ effectPending
  /\ stage' = "reading"
  /\ effectPending' = FALSE
  /\ lastAlert' = "none"
  /\ UNCHANGED <<appState, calls, speechAvailable, recognitionAvailable, currentIndex, robotEmotion, messages>>
  /\ UNCHANGED setupVars /\ UNCHANGED speechVars /\ UNCHANGED ioVars

\* onClick of the Mascot
MascotClick ==
  /\ View = "practice"
  /\ ~effectPending
  /\ robotEmotion # "happy"
  /\ robotEmotion' = "happy"
  /\ lastAlert' = "none"
  /\ UNCHANGED <<appState, calls, speechAvailable, recognitionAvailable, currentIndex, stage, messages, effectPending>>
  /\ UNCHANGED setupVars /\ UNCHANGED speechVars /\ UNCHANGED ioVars

----------------------------------------------------------------------------
(* Practice: chat; services/geminiService chatWithAssistant, generateSpeech *)

Cheer     == <<"jiayou">>      \* the reply chatWithAssistant puts for an empty response.text
Fallback  == <<"fallback">>    \* the reply chatWithAssistant returns from its catch
ReplyText == <<"reply">>       \* a non-empty response.text

HistoryWindow == 5             \* messages.slice(-5)

\* the answers of the chat model call: the call throws, or response.text is
\* undefined, empty or a text
ChatAnswers ==
  { [ok |-> FALSE, defined |-> FALSE, text |-> <<>>],
    [ok |-> TRUE,  defined |-> FALSE, text |-> <<>>],
    [ok |-> TRUE,  defined |-> TRUE,  text |-> <<>>],
    [ok |-> TRUE,  defined |-> TRUE,  text |-> ReplyText] }

\* the try block of chatWithAssistant: the model call throws, or
\* response.text || Cheer is returned
chatTry(answer) ==
  IF ~answer.ok THEN Thrown("Error")
  ELSE Ok(IF answer.defined /\ answer.text # <<>> THEN answer.text ELSE Cheer)

\* a catch that lets the error through
chatCatchRethrow(r) == IF r.ok THEN Fulfilled(r.val) ELSE Rejected(r.err)

\* the catch of chatWithAssistant: log and return Fallback
chatCatch(r) == IF r.ok THEN Fulfilled(r.val) ELSE Fulfilled(Fallback)

\* the promise of chatWithAssistant
chatWithAssistant(answer) == chatCatch(chatTry(answer))

\* the answers of the speech model call: the call throws, the response carries
\* no inline data, or it carries a payload that decodeAudioData accepts or
\* rejects
SpeechAnswers == {"throws", "no-data", "payload", "bad-payload"}

\* generateSpeech from its await on: base64Audio || null, or null from the catch
generateSpeech(answer) ==
  IF answer \in {"throws", "no-data"} THEN Null ELSE Str(answer)

\* messages.slice(-n)
LastN(s, n) == IF Len(s) <= n THEN s ELSE SubSeq(s, Len(s) - n + 1, Len(s))

\* the history without the slice
historyForAiWholeLog(msgs) ==
  [i \in DOMAIN msgs |-> [role |-> msgs[i].role, text |-> msgs[i].text]]

\* messages.slice(-5).map(m => ({ role: m.role, text: m.text || '' }))
historyForAi(msgs) ==
  LET w == LastN(msgs, HistoryWindow) IN
  [i \in DOMAIN w |-> [role |-> w[i].role, text |-> w[i].text]]

UserCount == Cardinality({i \in DOMAIN messages : messages[i].role = "user"})

\* what is typed into the chat input: nothing, a blank text or a text
ChatTexts == {<<>>, <<" ">>, <<"a">>}

\* onChange of the chat input
SetChatInput ==
  /\ View = "practice"
  /\ ~effectPending
  /\ \E t \in ChatTexts : chatInput' = t
  /\ chatInput' # chatInput
  /\ lastAlert' = "none"
  /\ UNCHANGED <<appState, calls, speechAvailable, recognitionAvailable>>
  /\ UNCHANGED <<isListening, inputLang, chats, recognitions>>
  /\ UNCHANGED setupVars /\ UNCHANGED practiceVars /\ UNCHANGED speechVars

\* if (!chatInput.trim()) return;
submitReturnsEarlyWhilePending(input) == Trim(input) = <<>> \/ chats # <<>>
submitReturnsEarly(input) == Trim(input) = <<>>

\* handleChatSubmit up to its first await.  A blank input returns at once.
\* The three state updates are queued before the context string is built, so
\* they take effect even when reading currentItem.content throws and no
\* request is made.
HandleChatSubmitWithin(submissions) ==
  /\ View = "practice"
  /\ ~effectPending
  /\ IF submitReturnsEarly(chatInput)
     THEN UNCHANGED <<messages, chatInput, robotEmotion, chats>>
     ELSE /\ UserCount < submissions
          /\ messages' = appendMessage(messages, [role |-> "user", text |-> chatInput])
          /\ chatInput' = <<>>
          /\ robotEmotion' = "thinking"
          /\ chats' =
               IF CurrentItem = Undefined THEN chats
               ELSE Append(chats,
                      [ phase   |-> "chat",
                        history |-> historyForAi(messages),
                        message |-> chatInput,
                        context |-> [ mode    |-> appState.mode,
                                      content |-> Get(CurrentItem, "content"),
                                      meaning |-> Get(CurrentItem, "meaning"),
                                      list    |-> [i \in DOMAIN Items |-> Items[i].content] ],
                        answer  |-> Pending,
                        reply   |-> <<>>,
                        live    |-> TRUE ])
  /\ lastAlert' = "none"
  /\ UNCHANGED <<appState, calls, speechAvailable, recognitionAvailable>>
  /\ UNCHANGED <<currentIndex, stage, effectPending, isListening, inputLang, recognitions>>
  /\ UNCHANGED setupVars /\ UNCHANGED speechVars

HandleChatSubmit == HandleChatSubmitWithin(MaxChats)

\* the chat model call of submission i settles and handleChatSubmit runs on to
\* its second await: the reply is appended, the emotion goes idle and
\* generateSpeech(reply) is called.  A rejected promise would make the await
\* throw and end the handler there.
ChatResponds ==
  /\ ~effectPending
  /\ \E i \in DOMAIN chats :
       /\ chats[i].phase = "chat"
       /\ \E answer \in ChatAnswers :
            LET p == chatWithAssistant(answer) IN
            IF p.state = "rejected"
            THEN /\ chats' = RemoveAt(chats, i)
                 /\ UNCHANGED <<messages, robotEmotion>>
            ELSE /\ chats' = [chats EXCEPT ![i].phase = "speech", ![i].answer = answer,
                                           ![i].reply = p.value]
                 /\ IF chats[i].live
                    THEN /\ messages' = appendMessage(messages,
                                                     [role |-> "model", text |-> p.value])
                         /\ robotEmotion' = "idle"
                    ELSE UNCHANGED <<messages, robotEmotion>>
  /\ lastAlert' = "none"
  /\ UNCHANGED <<appState, calls, speechAvailable, recognitionAvailable>>
  /\ UNCHANGED <<currentIndex, stage, effectPending>>
  /\ UNCHANGED <<chatInput, isListening, inputLang, recognitions>>
  /\ UNCHANGED setupVars /\ UNCHANGED speechVars

\* the try block around the assistant voice: decode, getAudioContext,
\* decodeAudioData and playAudioBuffer; the payload that cannot be decoded
\* throws
playTry(audioBase64) ==
  IF audioBase64 = Str("bad-payload") THEN Thrown("EncodingError") ELSE Ok(Undefined)

\* a catch that lets the error through
playCatchRethrow(r) == IF r.ok THEN Fulfilled(Undefined) ELSE Rejected(r.err)

\* catch (e) { console.error(e); }
playCatch(r) == Fulfilled(Undefined)

\* handleChatSubmit from the value of generateSpeech to its end: the promise of
\* the handler
finishChatSubmit(audioBase64) ==
  IF Truthy(audioBase64) THEN playCatch(playTry(audioBase64)) ELSE Fulfilled(Undefined)

\* the speech model call of submission i settles and handleChatSubmit runs to
\* its end.  With a payload it is decoded and played inside a try whose catch
\* only logs; the playback is a Web Audio source of its own and touches
\* neither window.speechSynthesis nor the component state.  Without one the
\* handler returns at once.  A handler whose promise rejected stays behind as
\* an unhandled rejection.
SpeechResponds ==
  /\ ~effectPending
  /\ \E i \in DOMAIN chats :
       /\ chats[i].phase = "speech"
       /\ \E answer \in SpeechAnswers :
            IF finishChatSubmit(generateSpeech(answer)).state = "rejected"
            THEN chats' = [chats EXCEPT ![i].phase = "rejected"]
            ELSE chats' = RemoveAt(chats, i)
  /\ lastAlert' = "none"
  /\ UNCHANGED <<appState, calls, speechAvailable, recognitionAvailable>>
  /\ UNCHANGED <<chatInput, isListening, inputLang, recognitions>>
  /\ UNCHANGED setupVars /\ UNCHANGED practiceVars /\ UNCHANGED speechVars

----------------------------------------------------------------------------
(* Practice: voice input *)

InputLangs == {"zh-HK", "zh-CN", "en-US"}

\* the updater of cycleInputLang
nextInputLang(prev) ==
  IF prev = "zh-HK" THEN "zh-CN" ELSE IF prev = "zh-CN" THEN "en-US" ELSE "zh-HK"

\* cycleInputLang
CycleInputLang ==
  /\ View = "practice"
  /\ ~effectPending
  /\ inputLang' = nextInputLang(inputLang)
  /\ lastAlert' = "none"
  /\ UNCHANGED <<appState, calls, speechAvailable, recognitionAvailable>>
  /\ UNCHANGED <<chatInput, isListening, chats, recognitions>>
  /\ UNCHANGED setupVars /\ UNCHANGED practiceVars /\ UNCHANGED speechVars

\* recognitionRef.current?.stop(): the object the ref holds is asked to stop;
\* nothing happens when it has ended already or the ref is null
stopCurrent(rs) ==
  [i \in DOMAIN rs |-> IF rs[i].current THEN [rs[i] EXCEPT !.stopped = TRUE] ELSE rs[i]]

\* recognitionRef.current = recognition; recognition.start().  The lang,
\* continuous and interimResults set on the object are read by the browser
\* only and are not part of the state.
startRecognition(rs) ==
  Append([i \in DOMAIN rs |-> [rs[i] EXCEPT !.current = FALSE]],
         [phase |-> "starting", stopped |-> FALSE, current |-> TRUE, live |-> TRUE])

\* toggleListening
ToggleListeningWithin(pending) ==
  /\ View = "practice"
  /\ ~effectPending
  /\ IF isListening
     THEN /\ recognitions' = stopCurrent(recognitions)
          /\ isListening' = FALSE
          /\ lastAlert' = "none"
     ELSE IF ~recognitionAvailable
          THEN /\ lastAlert' = "stt-unsupported"
               /\ UNCHANGED <<recognitions, isListening>>
          ELSE /\ Len(recognitions) < pending
               /\ recognitions' = startRecognition(recognitions)
               /\ lastAlert' = "none"
               /\ UNCHANGED isListening
  /\ UNCHANGED <<appState, calls, speechAvailable, recognitionAvailable>>
  /\ UNCHANGED <<chatInput, inputLang, chats>>
  /\ UNCHANGED setupVars /\ UNCHANGED practiceVars /\ UNCHANGED speechVars

ToggleListening == ToggleListeningWithin(MaxRecognitions)

\* recognition.onstart without the cancel()
onstartNoCancel(live) ==
  [ isListening |-> IF live THEN TRUE ELSE isListening,
    synth       |-> synth,
    cancelled   |-> cancelled ]

\* recognition.onstart: setIsListening(true); window.speechSynthesis.cancel().
\* The cancel acts on the window whether or not the component is still
\* mounted, and throws when window.speechSynthesis is undefined.
onstart(live) ==
  [ isListening |-> IF live THEN TRUE ELSE isListening,
    synth       |-> IF speechAvailable THEN <<>> ELSE synth,
    cancelled   |-> IF speechAvailable
                    THEN Min(cancelled + LiveCount(synth), MaxCancelled)
                    ELSE cancelled ]

\* the start event of recognition i is delivered
RecognitionStarts ==
  /\ ~effectPending
  /\ \E i \in DOMAIN recognitions :
       /\ recognitions[i].phase = "starting"
       /\ recognitions' = [recognitions EXCEPT ![i].phase = "started"]
       /\ LET r == onstart(recognitions[i].live) IN
          /\ isListening' = r.isListening
          /\ synth' = r.synth
          /\ cancelled' = r.cancelled
  /\ lastAlert' = "none"
  /\ UNCHANGED <<appState, calls, speechAvailable, recognitionAvailable, timers>>
  /\ UNCHANGED <<chatInput, inputLang, chats>>
  /\ UNCHANGED setupVars /\ UNCHANGED practiceVars

\* event.results of a result event: the transcripts of the results' first
\* alternatives, in order
Transcripts == {<<"a">>, <<" ">>}
ResultEventsUpTo(n) == SeqsUpTo(Transcripts, n) \ {<<>>}
ResultEvents == ResultEventsUpTo(MaxResults)

\* Array.from(event.results).map(result => result[0].transcript).join('')
RECURSIVE joinTranscripts(_)
joinTranscripts(results) ==
  IF results = <<>> THEN <<>> ELSE Head(results) \o joinTranscripts(Tail(results))

\* recognition.onresult with a transcript appended to the buffer
onresultAppends(results) == chatInput \o joinTranscripts(results)

\* recognition.onresult: the argument of its setChatInput
onresult(results) == joinTranscripts(results)

\* a result event of recognition i carrying results is delivered
RecognitionResultOf(i, results) ==
  /\ ~effectPending
  /\ recognitions[i].phase = "started"
  /\ chatInput' = IF recognitions[i].live THEN onresult(results) ELSE chatInput
  /\ lastAlert' = "none"
  /\ UNCHANGED <<appState, calls, speechAvailable, recognitionAvailable>>
  /\ UNCHANGED <<isListening, inputLang, chats, recognitions>>
  /\ UNCHANGED setupVars /\ UNCHANGED practiceVars /\ UNCHANGED speechVars

RecognitionResultFrom(Events) ==
  \E i \in DOMAIN recognitions : \E results \in Events : RecognitionResultOf(i, results)

RecognitionResult == RecognitionResultFrom(ResultEvents)

\* recognition.onerror leaving the listening flag alone
onerrorKeepsListening(live) == isListening

\* recognition.onerror: setIsListening(false), which reaches the state of a
\* mounted component only
onerror(live) == IF live THEN FALSE ELSE isListening

\* the error event of recognition i is delivered; the end event follows
RecognitionError ==
  /\ ~effectPending
  /\ \E i \in DOMAIN recognitions :
       /\ recognitions[i].phase \in {"starting", "started"}
       /\ recognitions' = [recognitions EXCEPT ![i].phase = "failed"]
       /\ isListening' = onerror(recognitions[i].live)
  /\ lastAlert' = "none"
  /\ UNCHANGED <<appState, calls, speechAvailable, recognitionAvailable>>
  /\ UNCHANGED <<chatInput, inputLang, chats>>
  /\ UNCHANGED setupVars /\ UNCHANGED practiceVars /\ UNCHANGED speechVars

\* recognition.onend: setIsListening(false); the object is done
RecognitionEnds ==
  /\ ~effectPending
  /\ \E i \in DOMAIN recognitions :
       /\ recognitions[i].phase \in {"started", "failed"}
       /\ recognitions' = RemoveAt(recognitions, i)
       /\ isListening' = IF recognitions[i].live THEN FALSE ELSE isListening
  /\ lastAlert' = "none"
  /\ UNCHANGED <<appState, calls, speechAvailable, recognitionAvailable>>
  /\ UNCHANGED <<chatInput, inputLang, chats>>
  /\ UNCHANGED setupVars /\ UNCHANGED practiceVars /\ UNCHANGED speechVars

----------------------------------------------------------------------------
(* Specifications *)

\* The Setup form, the extraction call and the view routing
SetupNext ==
  \/ SetText
  \/ SetMode
  \/ SetLanguage
  \/ AddFile
  \/ RemoveFile
  \/ LoadSample
  \/ HandleProcess
  \/ ProcessResumes
  \/ HandleBack

\* The item flow of a practice session
FlowNext ==
  \/ HandleNext
  \/ IndexEffect
  \/ MascotClick

\* Speech output of a practice session
SpeechNext ==
  \/ HandlePlayAudio
  \/ TimerFires
  \/ UtteranceSettles
  \/ CancelledSettles

\* The application from its start: the form, extraction, routing and item flow
Next ==
  \/ SetupNext
  \/ ServiceResponds(SessionResponses)
  \/ FlowNext

Spec == Init /\ [][Next]_vars

\* analyzeMaterial over the wide set of answers, from a filled-in form
InitExtract ==
  /\ appState = AppInit
  /\ text = Sample
  /\ mode \in Modes
  /\ language = "cantonese"
  /\ loading = FALSE
  /\ files = <<>>
  /\ calls = <<>>
  /\ lastAlert = "none"
  /\ PracticeInit
  /\ chats = <<>>
  /\ recognitions = <<>>
  /\ speechAvailable = TRUE
  /\ recognitionAvailable = TRUE
  /\ synth = <<>>
  /\ cancelled = 0
  /\ timers = <<>>

NextExtract ==
  \/ HandleProcess
  \/ ServiceResponds(WideResponses)
  \/ ProcessResumes
  \/ HandleBack

SpecExtract == InitExtract /\ [][NextExtract]_vars

\* A practice session from its mount: every state handleStart can hand to
\* Practice for the answers of SessionResponses
InitPractice ==
  /\ \E r \in SessionResponses, m \in Modes, l \in Languages :
       LET items == analyzeMaterial(r).value IN
       /\ Len(items) > 0
       /\ appState = handleStart(AppInit, items, m, l, "practice").appState
  /\ text = <<>>
  /\ mode = "vocab"
  /\ language = "cantonese"
  /\ loading = FALSE
  /\ files = <<>>
  /\ calls = <<>>
  /\ lastAlert = "none"
  /\ currentIndex = 0
  /\ stage = "reading"
  /\ robotEmotion = "idle"
  /\ messages = <<[role |-> "model", text |-> Greeting]>>
  /\ effectPending = TRUE
  /\ chatInput = <<>>
  /\ isListening = FALSE
  /\ inputLang = "zh-HK"
  /\ chats = <<>>
  /\ recognitions = <<>>
  /\ speechAvailable \in BOOLEAN
  /\ recognitionAvailable \in BOOLEAN
  /\ synth = <<>>
  /\ cancelled = 0
  /\ timers = <<>>

NextPractice ==
  \/ FlowNext
  \/ SpeechNext
  \/ HandleBack

SpecPractice == InitPractice /\ [][NextPractice]_vars

\* The chat of a practice session
ChatNext ==
  \/ SetChatInput
  \/ HandleChatSubmit
  \/ ChatResponds
  \/ SpeechResponds

\* Voice input of a practice session
ListenNext ==
  \/ CycleInputLang
  \/ ToggleListening
  \/ RecognitionStarts
  \/ RecognitionResult
  \/ RecognitionError
  \/ RecognitionEnds

\* A practice session in idiom mode (the mode whose playback has both the
\* immediate and the delayed utterance) up to its exit, with every handler of
\* Practice: flow, speech output, chat and voice input, with result events
\* of up to SessionResults results
InitSession == InitPractice /\ appState.mode = "idiom"

NextSession ==
  \/ FlowNext
  \/ SpeechNext
  \/ ChatNext
  \/ CycleInputLang
  \/ ToggleListening
  \/ RecognitionStarts
  \/ RecognitionResultFrom(ResultEventsUpTo(SessionResults))
  \/ RecognitionError
  \/ RecognitionEnds

SpecSession == InitSession /\ [][NextSession]_vars

\* Speech output against voice input: the item flow, playback and its events,
\* the mic toggle and the start, error and end events of recognition, up to
\* and past the exit
NextVoice ==
  \/ HandleNext
  \/ IndexEffect
  \/ SpeechNext
  \/ ToggleListening
  \/ RecognitionStarts
  \/ RecognitionError
  \/ RecognitionEnds
  \/ HandleBack

SpecVoice == InitPractice /\ [][NextVoice]_vars

\* Voice input: the mic toggle, the input language, every recognition event
\* and typing into the chat input, beside the item flow, up to and past the
\* exit.  None of these handlers reads the mode or the audio language, so the
\* sessions start in one of each.
InitListen ==
  InitPractice /\ appState.mode = "vocab" /\ appState.audioLanguage = "cantonese"

NextListen ==
  \/ ListenNext
  \/ SetChatInput
  \/ HandleNext
  \/ IndexEffect
  \/ HandleBack

SpecListen == InitListen /\ [][NextListen]_vars

\* The mic toggle against the recognition events, with room for a second
\* recognition object
NextToggle ==
  \/ IndexEffect
  \/ HandleNext
  \/ ToggleListeningWithin(TogglePending)
  \/ RecognitionStarts
  \/ RecognitionResult
  \/ RecognitionError
  \/ RecognitionEnds
  \/ HandleBack

SpecToggle == InitListen /\ [][NextToggle]_vars

\* The chat beside the item flow, up to and past the exit.  None of these
\* handlers reads the audio language or the browser's speech support.
InitChat ==
  /\ InitPractice
  /\ appState.audioLanguage = "cantonese"
  /\ speechAvailable /\ recognitionAvailable

NextChat ==
  \/ ChatNext
  \/ HandleNext
  \/ IndexEffect
  \/ HandleBack

SpecChat == InitChat /\ [][NextChat]_vars

\* The chat over a log that outgrows the history window: sessions over a
\* single item, where every advance is a terminal one and adds a message
InitWindow == InitChat /\ appState.mode = "vocab" /\ Len(Items) = 1

NextWindow ==
  \/ ChatNext
  \/ HandleNextWithin(WindowFinish)
  \/ IndexEffect

SpecWindow == InitWindow /\ [][NextWindow]_vars

\* The chat with room for a second submission while the first is unanswered,
\* over a single item
NextPending ==
  \/ SetChatInput
  \/ HandleChatSubmitWithin(PendingChats)
  \/ ChatResponds
  \/ SpeechResponds
  \/ HandleNext
  \/ IndexEffect

SpecPending == InitWindow /\ [][NextPending]_vars

\* Idiom playback over the item flow with room for a second pending timer
InitStale ==
  /\ InitPractice
  /\ appState.mode = "idiom"
  /\ speechAvailable /\ recognitionAvailable

NextStale ==
  \/ HandleNext
  \/ IndexEffect
  \/ HandlePlayAudioWithin(StalePending)
  \/ TimerFires
  \/ UtteranceSettles
  \/ CancelledSettles

SpecStale == InitStale /\ [][NextStale]_vars

\* The item flow beside everything a reveal could disturb: playback and its
\* events, typing into the chat input, the mic toggle and the start and end
\* events of recognition, in idiom mode with both browser speech services
InitReveal ==
  /\ InitPractice
  /\ appState.mode = "idiom"
  /\ speechAvailable /\ recognitionAvailable

NextReveal ==
  \/ FlowNext
  \/ SpeechNext
  \/ SetChatInput
  \/ ToggleListening
  \/ RecognitionStarts
  \/ RecognitionEnds

SpecReveal == InitReveal /\ [][NextReveal]_vars

\* One lifetime of a session: the form holds the sample sentence, the mode
\* buttons stay usable while the extraction is in flight, and the session the
\* extraction starts runs every handler of Practice up to its exit
InitLifetime ==
  /\ InitExtract
  /\ mode = "vocab"

NextLifetime ==
  \/ SetMode
  \/ HandleProcess
  \/ ServiceResponds(SessionResponses)
  \/ ProcessResumes
  \/ HandleBack
  \/ FlowNext
  \/ SpeechNext
  \/ ChatNext
  \/ CycleInputLang
  \/ ToggleListening
  \/ RecognitionStarts
  \/ RecognitionResultFrom(ResultEventsUpTo(SessionResults))
  \/ RecognitionError
  \/ RecognitionEnds

SpecLifetime == InitLifetime /\ [][NextLifetime]_vars

----------------------------------------------------------------------------
(* Properties *)

NonEmptyString(x) == x.t = "string" /\ x.v # ""

InSession == View = "practice" /\ appState'.view = "practice"

\* C1: in a practice session over a non-empty list currentIndex stays within
\* [0, length-1]; no step of the session (reveal, advance, play, utterance and
\* timer events, chat input, submission and replies, voice-input toggles and
\* recognition events) decreases it, and a step taken at the last index leaves
\* it unchanged.
C1_IndexBoundedMonotone ==
  /\ [](View = "practice" => currentIndex \in 0..(Len(Items) - 1))
  /\ [][InSession =>
          /\ currentIndex' >= currentIndex
          /\ (currentIndex = Len(Items) - 1 => currentIndex' = currentIndex)]_vars

\* the last of several items was reached and the advance at the last index
\* was taken, after a chat submission was answered, while an utterance is
\* playing and the voice input is listening
C1_Witness ==
  /\ View = "practice"
  /\ currentIndex > 0 /\ currentIndex = Len(Items) - 1
  /\ CongratsCount > 0
  /\ UserCount > 0 /\ messages[Len(messages)].role = "model"
  /\ synth # <<>>
  /\ isListening

\* C2: an advance with a next index raises the index by exactly one and sets
\* the stage to 'reading' in the same step; the index changes in no other way,
\* and a state shows stage 'revealed' only at the index the step before it had,
\* so not before a reveal was taken at that index.
C2_AdvanceResetsStage ==
  [][ /\ (HandleNext /\ stage = "revealed" /\ currentIndex < Len(Items) - 1)
          => (currentIndex' = currentIndex + 1 /\ stage' = "reading")
      /\ (InSession /\ currentIndex' # currentIndex)
          => (stage = "revealed" /\ currentIndex' = currentIndex + 1 /\ stage' = "reading")
      /\ (stage' = "revealed")
          => (InSession /\ currentIndex' = currentIndex) ]_vars

\* the state right after an advance, before the index effect has run
C2_Witness ==
  View = "practice" /\ currentIndex = 1 /\ stage = "reading" /\ effectPending

\* C3: over repeated advances at the last index at most one congratulatory
\* message is ever appended to the chat log.
C3_OneCongratulation == CongratsCount <= 1

\* the three failures the extraction call's contract names
IsFailure(r) ==
  \/ r.kind = "throw"
  \/ /\ r.kind = "ok"
     /\ ~r.text.empty
     /\ IF r.text.wf THEN r.text.json.t # "array" ELSE TRUE

Settled(c) == c.promise # Unsettled

\* C4: analyzeMaterial's promise never rejects, and for a transport error, an
\* unparseable text or a payload that is no array it resolves to the empty list.
C4_NeverRaises ==
  \A i \in DOMAIN calls :
    Settled(calls[i]) =>
      /\ calls[i].promise.state = "fulfilled"
      /\ IsFailure(calls[i].response) => calls[i].promise.value = <<>>

\* each of the three failures has produced its empty list
C4_Witness ==
  \E i \in DOMAIN calls :
    /\ calls[i].promise = Fulfilled(<<>>)
    /\ calls[i].response \in {Transport, Answer(Garbled), Answer(JsonText(Null))}

\* C5: a call that ends with the empty list leaves the view at 'setup' and
\* raises the content-missing notice; whenever the view is 'practice' or
\* 'worksheet' the item list is non-empty, and in the practice view the current
\* item is defined.
C5_EmptyNeverStarts ==
  /\ [](View \in {"practice", "worksheet"} => Len(Items) > 0)
  /\ [](View = "practice" => CurrentItem # Undefined)
  /\ [][\A i \in DOMAIN calls :
          (calls[i].promise = Fulfilled(<<>>) /\ calls' = RemoveAt(calls, i))
            => (appState' = appState /\ View = "setup" /\ lastAlert' = "content-missing")]_vars

\* handleStart has just refused an empty list
C5_Witness == View = "setup" /\ lastAlert = "content-missing" /\ Items = <<>>

\* the raw array a fulfilled call's items were mapped from, and the pairs of
\* positions to compare
RawOf(c) == c.response.text.json.v

Mapped(c) == Settled(c) /\ c.promise.state = "fulfilled" /\ c.promise.value # <<>>

\* C6 as claimed: content and meaning of every returned item are non-empty
\* strings, whatever the raw item carries.
C6_ContentMeaningNonEmpty ==
  \A i \in DOMAIN calls :
    Mapped(calls[i]) =>
      \A k \in DOMAIN calls[i].promise.value :
        /\ NonEmptyString(calls[i].promise.value[k].content)
        /\ NonEmptyString(calls[i].promise.value[k].meaning)

\* C6 as amended: meaning is never undefined or null -- the empty string when
\* the raw item's meaning is missing, null or empty, the raw meaning when that
\* is a non-empty string; content is the raw item's content passed through; so
\* both are non-empty strings whenever the raw item carries non-empty strings
\* for both.
C6_MeaningDefaulted ==
  \A i \in DOMAIN calls :
    Mapped(calls[i]) =>
      \A k \in DOMAIN calls[i].promise.value :
        LET raw  == RawOf(calls[i])[k]
            item == calls[i].promise.value[k]
        IN  /\ item.meaning.t \notin {"undefined", "null"}
            /\ (Get(raw, "meaning") \in {Undefined, Null, Str("")}) => item.meaning = Str("")
            /\ NonEmptyString(Get(raw, "meaning")) => item.meaning = Get(raw, "meaning")
            /\ item.content = Get(raw, "content")
            /\ (NonEmptyString(Get(raw, "content")) /\ NonEmptyString(Get(raw, "meaning")))
                 => (NonEmptyString(item.content) /\ NonEmptyString(item.meaning))

\* an item was returned for a raw item without meaning, and one for a raw item
\* without content
C6_Witness ==
  \E i \in DOMAIN calls :
    /\ Mapped(calls[i])
    /\ Get(RawOf(calls[i])[1], "meaning") = Undefined
    /\ Get(RawOf(calls[i])[1], "content") = Undefined
    /\ calls[i].promise.value[1].meaning = Str("")

\* C7 as claimed: each of subContent, example and clozeContent that the raw
\* item lacks (missing, null, undefined) is the empty string in the returned
\* item, and isNewParagraph is false when newParagraph is missing.
C7_OptionalEmptyString ==
  \A i \in DOMAIN calls :
    Mapped(calls[i]) =>
      \A k \in DOMAIN calls[i].promise.value :
        LET raw  == RawOf(calls[i])[k]
            item == calls[i].promise.value[k]
        IN  /\ Get(raw, "subContent") \in {Undefined, Null} => item.subContent = Str("")
            /\ Get(raw, "example") \in {Undefined, Null} => item.example = Str("")
            /\ Get(raw, "clozeContent") \in {Undefined, Null} => item.clozeContent = Str("")
            /\ Get(raw, "newParagraph") = Undefined => item.isNewParagraph = Bool(FALSE)

\* C7 as amended: example and clozeContent as claimed; a lacking subContent is
\* the raw item's pinyin when that is a non-empty string and the empty string
\* otherwise; none of the three is ever undefined or null.
C7_OptionalDefaulted ==
  \A i \in DOMAIN calls :
    Mapped(calls[i]) =>
      \A k \in DOMAIN calls[i].promise.value :
        LET raw  == RawOf(calls[i])[k]
            item == calls[i].promise.value[k]
        IN  /\ Get(raw, "subContent") \in {Undefined, Null} =>
                 item.subContent = IF NonEmptyString(Get(raw, "pinyin"))
                                   THEN Get(raw, "pinyin") ELSE Str("")
            /\ Get(raw, "example") \in {Undefined, Null} => item.example = Str("")
            /\ Get(raw, "clozeContent") \in {Undefined, Null} => item.clozeContent = Str("")
            /\ Get(raw, "newParagraph") = Undefined => item.isNewParagraph = Bool(FALSE)
            /\ \A f \in {"subContent", "example", "clozeContent"} :
                 item[f].t \notin {"undefined", "null"}

\* an item was returned for a raw item that lacks all three optional fields
\* and newParagraph, and one whose pinyin stood in for subContent
C7_Witness ==
  /\ \E i \in DOMAIN calls :
       /\ Mapped(calls[i])
       /\ \A f \in {"subContent", "pinyin", "example", "clozeContent", "newParagraph"} :
            Get(RawOf(calls[i])[1], f) = Undefined
       /\ calls[i].promise.value[1].example = Str("")

\* C8: a successful call returns one item per raw element in the same order,
\* the item at position i carrying the id of the ordinal i whatever id the raw
\* element has; handleStart stores exactly that list, and no step taken in the
\* practice or worksheet view changes it.
C8_OrdinalIdsInOrder ==
  /\ [](\A i \in DOMAIN calls :
          Mapped(calls[i]) =>
            LET raw   == RawOf(calls[i])
                items == calls[i].promise.value
            IN  /\ Len(items) = Len(raw)
                /\ \A k \in DOMAIN items :
                     /\ items[k].id = Str(ToString(k - 1))
                     /\ items[k].content = Get(raw[k], "content"))
  /\ [][\A i \in DOMAIN calls :
          (Mapped(calls[i]) /\ calls' = RemoveAt(calls, i))
            => appState'.dictationList = calls[i].promise.value]_vars
  /\ [][(View \in {"practice", "worksheet"} /\ appState'.view = View)
          => appState'.dictationList = Items]_vars

\* a session over two items runs at the second; the first raw element carried
\* its own id
C8_Witness ==
  /\ View = "practice" /\ currentIndex = 1
  /\ Len(Items) = 2
  /\ Items[1].id = Str("0") /\ Items[2].id = Str("1")
  /\ Items[1].content = Str("c1") /\ Items[2].content = Str("c2")
  /\ Get(ItemA, "id") = Str("9")

\* C9: at most one analyzeMaterial call is in flight, and loading is true
\* exactly while one is.
C9_LoadingGatesCalls ==
  /\ Len(calls) <= 1
  /\ loading <=> (calls # <<>>)

\* a call is in flight, its answer has arrived, and the form still has material
C9_Witness ==
  /\ loading /\ Len(calls) = 1 /\ Settled(calls[1])
  /\ ~NoMaterial

\* the first utterance of a play of the current item, and its second
UtteranceA == [text |-> UtteranceText(Get(CurrentItem, "content")), slow |-> FALSE, live |-> TRUE]
TextB == MeaningPrefix \o JSString(Get(CurrentItem, "meaning"))

PlaysAThenSchedulesB ==
  /\ synth' = <<UtteranceA>>
  /\ timers' = Append(timers, [text |-> TextB, lang |-> appState.audioLanguage, live |-> TRUE])

\* C10 as claimed: in idiom mode every play issues utterance A and schedules
\* utterance B behind it.
C10_EveryPlayIssuesAThenB ==
  [][(HandlePlayAudio /\ appState.mode = "idiom") => PlaysAThenSchedulesB]_vars

\* C10 as amended: in idiom mode, when the browser offers speech synthesis,
\* every play issues utterance A (the content) and schedules utterance B (the
\* prefix and the meaning); a pending B can fire whatever became of A, and
\* when it fires it is the utterance issued.  Without speech synthesis a play
\* issues no utterance.
C10_IdiomAThenBWhenAvailable ==
  /\ [][(HandlePlayAudio /\ appState.mode = "idiom" /\ speechAvailable)
          => PlaysAThenSchedulesB]_vars
  /\ [][(HandlePlayAudio /\ ~speechAvailable) => synth' = synth]_vars
  /\ [][(timers # <<>> /\ timers' = Tail(timers) /\ speechAvailable)
          => synth' = <<[text |-> Head(timers).text, slow |-> FALSE,
                         live |-> Head(timers).live]>>]_vars
  /\ [](timers # <<>> /\ ~effectPending => ENABLED TimerFires)

\* B of the first item is playing in the session that scheduled it
C10_Witness ==
  /\ View = "practice" /\ appState.mode = "idiom"
  /\ synth = <<[text |-> MeaningPrefix \o "m1", slow |-> FALSE, live |-> TRUE]>>
  /\ timers = <<>>

----------------------------------------------------------------------------
(* Speech output and voice input *)

\* C11: at most one local utterance is playing or queued in any reachable
\* state; a play, replay or delayed idiom utterance that reaches the browser
\* leaves its own utterance as the only one, and the live utterance it found
\* playing is cancelled (its end/error event becomes an undelivered one).
C11_OneLocalUtterance ==
  /\ [](Len(synth) <= 1)
  /\ [][(HandlePlayAudio \/ TimerFires) =>
          /\ Len(synth') <= 1
          /\ (speechAvailable /\ synth # <<>> /\ Head(synth).live /\ CurrentItem # Undefined)
               => cancelled' = Min(cancelled + 1, MaxCancelled)]_vars

\* the delayed idiom utterance of the first item is the only one in the queue
\* after it cancelled the utterance it found playing
C11_Witness ==
  /\ View = "practice"
  /\ synth = <<[text |-> MeaningPrefix \o "m1", slow |-> FALSE, live |-> TRUE]>>
  /\ cancelled > 0

\* C12: no reachable state has isListening true while a local utterance is
\* playing or queued.
C12_OutputInputExclusive == ~(isListening /\ synth # <<>>)

\* C13: the step that delivers a recognition's start event leaves no local
\* utterance playing or queued.
C13_BargeIn == [][RecognitionStarts => synth' = <<>>]_vars

\* right after a start event that cancelled a playing utterance: listening,
\* nothing in the queue, and the cancelled utterance's end/error event (which
\* will take the emotion off 'speaking') not delivered yet
C13_Witness ==
  /\ View = "practice"
  /\ isListening
  /\ synth = <<>>
  /\ cancelled > 0
  /\ robotEmotion = "speaking"

\* C14: at most one recognition is starting or started at a time.
C14_OneRecognitionActive ==
  Cardinality({i \in DOMAIN recognitions :
                 recognitions[i].phase \in {"starting", "started"}}) <= 1

\* C17: without speech synthesis every play raises the unsupported notice and
\* leaves the emotion 'idle', in both audio languages.
C17_NoBackendNotice ==
  [][(HandlePlayAudio /\ ~speechAvailable)
       => (lastAlert' = "tts-unsupported" /\ robotEmotion' = "idle")]_vars

\* the transcripts of an event's results, concatenated in order
RECURSIVE InOrder(_)
InOrder(results) ==
  IF results = <<>> THEN <<>>
  ELSE InOrder(SubSeq(results, 1, Len(results) - 1)) \o results[Len(results)]

\* C15: a result event of a recognition of the mounted Practice leaves the
\* chat input equal to the concatenation, in order, of the transcripts the
\* event carries, whatever the input held before (typed text or the
\* transcript of an earlier event).
C15_ResultReplacesBuffer ==
  [][\A i \in DOMAIN recognitions : \A results \in ResultEvents :
        (RecognitionResultOf(i, results) /\ recognitions[i].live)
          => chatInput' = InOrder(results)]_vars

\* the input holds the two transcripts of one event (typing gives at most
\* one character) while the recognition that delivered it is listening
C15_Witness ==
  /\ View = "practice"
  /\ isListening
  /\ chatInput = <<"a", " ">>

\* C16: the step that delivers a recognition error leaves isListening false,
\* leaves the index, the stage, the chat log and the chat input as they were
\* and raises no notice.
C16_ErrorEndsListeningSilently ==
  [][RecognitionError =>
       /\ isListening' = FALSE
       /\ UNCHANGED <<currentIndex, stage, messages, chatInput>>
       /\ lastAlert' = "none"]_vars

\* right after the error of a listening recognition: the flag is down, the
\* end event is still to come, and the input and the log hold something
C16_Witness ==
  /\ View = "practice"
  /\ ~isListening
  /\ \E i \in DOMAIN recognitions : recognitions[i].phase = "failed" /\ recognitions[i].live
  /\ chatInput # <<>>
  /\ Len(messages) > 1
  /\ stage = "revealed"

----------------------------------------------------------------------------
(* Chat *)

\* the request handleChatSubmit has just made: the newest entry of chats
NewRequest == chats'[Len(chats')]

\* C18: a submission that is not blank makes a request whose history has
\* min(5, n) entries, n the length of the log before the submission, and
\* they are the role and text of the last min(5, n) messages of that log in
\* log order; the log after the submission is the log before it with the
\* user message added at its end.
C18_HistoryIsTrailingWindow ==
  [][(HandleChatSubmit /\ Len(chats') > Len(chats)) =>
       LET n == Len(messages)
           h == NewRequest.history
       IN  /\ Len(h) = Min(5, n)
           /\ \A k \in 1..Len(h) :
                 /\ h[k].role = messages[n - Len(h) + k].role
                 /\ h[k].text = messages[n - Len(h) + k].text
           /\ Len(messages') = n + 1
           /\ SubSeq(messages', 1, n) = messages
           /\ messages'[n + 1] = [role |-> "user", text |-> chatInput]]_vars

\* a request in flight whose history is a full window that no longer starts
\* at the greeting: the log was longer than the window when it was made
C18_Witness ==
  /\ View = "practice"
  /\ \E i \in DOMAIN chats :
       /\ chats[i].phase = "chat" /\ chats[i].live
       /\ Len(chats[i].history) = 5
       /\ chats[i].history[1].text # Greeting
  /\ Len(messages) >= 7

\* the caps of the model aside, the session can go on
WithinCaps == CongratsCount < MaxFinish /\ UserCount < MaxChats

IsPrefix(s, t) == Len(s) <= Len(t) /\ SubSeq(t, 1, Len(s)) = s

\* C20: every step of a session leaves the chat log of before as a prefix of
\* the chat log of after.
C20_LogAppendOnly == [][InSession => IsPrefix(messages, messages')]_vars

\* a log that grew by all three writers: a user message, a reply and a
\* congratulation after the greeting
C20_Witness ==
  /\ View = "practice"
  /\ messages[1] = [role |-> "model", text |-> Greeting]
  /\ UserCount > 0
  /\ CongratsCount > 0
  /\ \E k \in DOMAIN messages :
       messages[k].role = "model" /\ messages[k].text \in {Cheer, Fallback, ReplyText}

----------------------------------------------------------------------------
\* C21: while the practice view that took the submission is mounted, the step
\* that requests the assistant voice is the step that has appended the text
\* reply; whatever generateSpeech answers (it throws inside, it has no payload,
\* its payload plays or cannot be decoded) the handler ends without a
\* rejection and index, stage and chat log are as they were, so the reply stays
\* in the log.
C21_ReplySurvivesSpeechFailure ==
  /\ [][\A i \in DOMAIN chats :
          (/\ i \in DOMAIN chats'
           /\ chats[i].phase = "chat" /\ chats'[i].phase = "speech"
           /\ chats[i].live)
          => messages' = Append(messages, [role |-> "model", text |-> chats'[i].reply])]_vars
  /\ [](\A i \in DOMAIN chats :
          /\ chats[i].phase \in {"chat", "speech"}
          /\ (chats[i].phase = "speech" /\ chats[i].live)
             => \E k \in DOMAIN messages :
                  messages[k] = [role |-> "model", text |-> chats[i].reply])
  /\ [][SpeechResponds =>
          /\ UNCHANGED <<currentIndex, stage, messages>>
          /\ Len(chats') = Len(chats) - 1]_vars

\* the handler of a submission has run to its end and its reply is the last
\* message of the log
C21_Witness ==
  /\ View = "practice"
  /\ chats = <<>>
  /\ UserCount > 0
  /\ messages[Len(messages)] = [role |-> "model", text |-> ReplyText]
  /\ messages[Len(messages) - 1].role = "user"

----------------------------------------------------------------------------
\* C22: handleNext can be taken in stage 'reading', sets the stage to 'revealed'
\* and changes nothing else: the index, the chat log, the chat input, the listening
\* state and its recognition objects, the emotion, the utterance queue and the
\* pending timers are as they were.
C22_RevealChangesOnlyStage ==
  /\ []((View = "practice" /\ ~effectPending /\ stage = "reading")
          => ENABLED (HandleNext /\ stage' = "revealed"))
  /\ [][(HandleNext /\ stage = "reading") =>
          /\ stage' = "revealed"
          /\ UNCHANGED <<currentIndex, messages, chatInput, isListening, robotEmotion>>
          /\ UNCHANGED <<synth, cancelled, timers, recognitions, chats, inputLang>>
          /\ UNCHANGED <<appState, effectPending>>]_vars

\* an item is revealed while an utterance plays, the mic listens and the chat
\* input holds a text
C22_Witness ==
  /\ View = "practice"
  /\ stage = "revealed"
  /\ currentIndex > 0
  /\ robotEmotion = "speaking"
  /\ synth # <<>>
  /\ isListening
  /\ chatInput = <<"a">>

----------------------------------------------------------------------------
\* C23: the step that opens the practice or worksheet view is the resumption
\* of an extraction call and hands over the mode that call was started with and
\* the list it returned, whatever the mode buttons show by then; while the view
\* stays open no step changes the session's mode, list or view; the step that
\* closes it returns to setup with an empty list.
C23_ModeFixedForSession ==
  /\ [][(View = "setup" /\ appState'.view # "setup") =>
          \E i \in DOMAIN calls :
            /\ calls' = RemoveAt(calls, i)
            /\ calls[i].promise # Unsettled
            /\ calls[i].promise.state = "fulfilled"
            /\ appState'.view = calls[i].targetView
            /\ appState'.mode = calls[i].mode
            /\ appState'.dictationList = calls[i].promise.value]_vars
  /\ [][(View # "setup" /\ appState'.view # "setup") =>
          /\ appState'.view = View
          /\ appState'.mode = appState.mode
          /\ appState'.dictationList = Items]_vars
  /\ [][(View # "setup" /\ appState'.view = "setup") =>
          (HandleBack /\ appState'.dictationList = <<>>)]_vars

\* an extraction started in one mode has returned a list and is about to open
\* the session while the mode buttons show another mode
C23_Witness ==
  /\ View = "setup"
  /\ \E i \in DOMAIN calls :
       /\ calls[i].promise # Unsettled
       /\ calls[i].promise.state = "fulfilled"
       /\ calls[i].promise.value # <<>>
       /\ calls[i].mode = "idiom"
       /\ mode = "paragraph"

----------------------------------------------------------------------------
\* C24: in idiom mode a play schedules a timer whose text is the prefix and the
\* meaning of the item current at the play; until it fires no step removes or
\* changes a pending timer (reveal, advance, another play and the utterance
\* events leave the pending ones in place); it can fire whenever it is the
\* oldest, and when it fires its utterance, with the text it was scheduled
\* with, replaces whatever utterance is in the queue and that one counts as
\* cancelled, also when the index has moved on to another item.
C24_StaleTimerStillSpeaks ==
  /\ [][(HandlePlayAudioWithin(StalePending) /\ CurrentItem # Undefined) =>
          /\ Len(timers') = Len(timers) + 1
          /\ timers'[Len(timers')].text
               = MeaningPrefix \o JSString(Get(CurrentItem, "meaning"))]_vars
  /\ [][\/ timers' = timers
        \/ (Len(timers') = Len(timers) + 1 /\ SubSeq(timers', 1, Len(timers)) = timers)
        \/ /\ timers # <<>>
           /\ timers' = Tail(timers)
           /\ synth' = <<[text |-> Head(timers).text, slow |-> FALSE,
                          live |-> Head(timers).live]>>
           /\ cancelled' = Min(cancelled + LiveCount(synth), MaxCancelled)]_vars
  /\ []((timers # <<>> /\ ~effectPending) => ENABLED TimerFires)

\* at the second item, whose own timer is pending, the utterance in the queue
\* speaks the meaning of the first item and an utterance was cancelled
C24_Witness ==
  /\ View = "practice"
  /\ currentIndex = 1
  /\ synth = <<[text |-> MeaningPrefix \o JSString(Items[1].meaning),
                slow |-> FALSE, live |-> TRUE]>>
  /\ Items[1].meaning # Items[2].meaning
  /\ timers = <<idiomTimer(CurrentItem, appState.audioLanguage)>>
  /\ cancelled > 0

----------------------------------------------------------------------------
(* Chat submissions in flight *)

IsReply(m) == m.role = "model" /\ m.text \notin {Greeting, Congrats}

RepliesIn(k) == Cardinality({j \in 1..k : IsReply(messages[j])})

UsersIn(k) == Cardinality({j \in 1..k : messages[j].role = "user"})

Unanswered == Cardinality({i \in DOMAIN chats : chats[i].phase = "chat"})

\* C25: a non-blank submission can be made while earlier ones are unanswered;
\* it appends its user message at once and starts one request.  The return of
\* a request appends one model reply.  At every point of the log the replies
\* (model messages other than the greeting and the congratulation) are no more
\* than the user messages before them, and replies and unanswered requests
\* together are as many as the user messages.  A blank input cannot append a
\* message or start a request.
C25_SubmissionsNotGated ==
  /\ []((View = "practice" /\ ~effectPending /\ UserCount < PendingChats)
          => IF Trim(chatInput) # <<>>
             THEN ENABLED (HandleChatSubmitWithin(PendingChats)
                             /\ Len(chats') = Len(chats) + 1)
             ELSE ~ENABLED (HandleChatSubmitWithin(PendingChats)
                              /\ (messages' # messages \/ chats' # chats)))
  /\ [][(HandleChatSubmitWithin(PendingChats) /\ Trim(chatInput) # <<>>) =>
          /\ messages' = Append(messages, [role |-> "user", text |-> chatInput])
          /\ Len(chats') = Len(chats) + 1
          /\ SubSeq(chats', 1, Len(chats)) = chats
          /\ chats'[Len(chats')].phase = "chat"
          /\ chats'[Len(chats')].message = chatInput]_vars
  /\ [][ChatResponds =>
          \E i \in DOMAIN chats :
            /\ chats[i].phase = "chat" /\ chats'[i].phase = "speech"
            /\ \A j \in DOMAIN chats : j # i => chats'[j] = chats[j]
            /\ messages' = Append(messages, [role |-> "model", text |-> chats'[i].reply])
            /\ IsReply(messages'[Len(messages')])]_vars
  /\ [](/\ \A k \in 0..Len(messages) : RepliesIn(k) <= UsersIn(k)
        /\ RepliesIn(Len(messages)) + Unanswered = UserCount)

\* two submissions were made before either was answered, and both have their
\* reply
C25_Witness ==
  /\ View = "practice"
  /\ \E k \in DOMAIN messages :
       /\ k + 3 \in DOMAIN messages
       /\ messages[k].role = "user" /\ messages[k + 1].role = "user"
       /\ IsReply(messages[k + 2]) /\ IsReply(messages[k + 3])
  /\ CongratsCount > 0
====
